---------------------------- MODULE Spec2Model ----------------------------
(***************************************************************************)
(* GSTIN OCR correction of the tax-invoice extractor (src/app.py):         *)
(* is_valid_gstin_format, try_fix_gstin and post_process_invoice_data.     *)
(*                                                                         *)
(* A Python str is a sequence of one-character strings.  str.upper() is    *)
(* modelled by what it does: it maps a-z to A-Z, leaves digits, capitals   *)
(* and punctuation alone, and expands the one-character sharp s to the     *)
(* two characters "SS", so the uppercased string can be longer than the    *)
(* string itself.  The sharp s is written "sz" here.                       *)
(***************************************************************************)
EXTENDS Integers, Sequences, FiniteSets, TLC

VARIABLES
    gstin,      \* the argument handed to try_fix_gstin
    edits,      \* how many characters of the sample input were misread
    result,     \* what try_fix_gstin(gstin) returned
    result2,    \* what try_fix_gstin(result) returned
    ncalls,     \* how many of the two calls have returned
    data,       \* the argument handed to post_process_invoice_data
    processed,  \* the mapping post_process_invoice_data returned
    calls,      \* the arguments try_fix_gstin was invoked with, in order
    done        \* post_process_invoice_data has returned

vars == <<gstin, edits, result, result2, ncalls, data, processed, calls, done>>

---------------------------------------------------------------------------
(* Characters *)

Digits == {"0", "1", "2", "3", "4", "5", "6", "7", "8", "9"}

UPPERCASE == <<"A", "B", "C", "D", "E", "F", "G", "H", "I", "J", "K", "L", "M",
               "N", "O", "P", "Q", "R", "S", "T", "U", "V", "W", "X", "Y", "Z">>

LOWERCASE == <<"a", "b", "c", "d", "e", "f", "g", "h", "i", "j", "k", "l", "m",
               "n", "o", "p", "q", "r", "s", "t", "u", "v", "w", "x", "y", "z">>

Letters == {UPPERCASE[n] : n \in DOMAIN UPPERCASE}

LowerLetters == {LOWERCASE[n] : n \in DOMAIN LOWERCASE}

SharpS == "sz"

Newline == "\n"

Chars == Digits \cup Letters \cup LowerLetters \cup {SharpS, Newline, "-"}

\* str.upper() on one character: the characters it yields.
upper_char ==
    [c \in Chars |->
        IF c \in LowerLetters
        THEN <<UPPERCASE[CHOOSE n \in DOMAIN LOWERCASE : LOWERCASE[n] = c]>>
        ELSE IF c = SharpS THEN <<"S", "S">>
        ELSE <<c>>]

\* str.upper(): the concatenation of the characters' uppercase forms.
RECURSIVE upper_from(_, _)
upper_from(s, j) ==
    IF j > Len(s) THEN <<>> ELSE upper_char[s[j]] \o upper_from(s, j + 1)

\* Character by character where no character expands.
upper(s) ==
    IF \A j \in DOMAIN s : Len(upper_char[s[j]]) = 1
    THEN [j \in DOMAIN s |-> upper_char[s[j]][1]]
    ELSE upper_from(s, 1)

---------------------------------------------------------------------------
(* GSTIN helpers *)

\* The table with its last entry written for the capital: ("L", "1").
AMBIGUOUS_MAPS_capital_L ==
    << <<"8", "B">>, <<"0", "O">>, <<"1", "I">>, <<"L", "1">> >>

\* One-directional: from likely wrong -> likely right
AMBIGUOUS_MAPS == << <<"8", "B">>, <<"0", "O">>, <<"1", "I">>, <<"l", "1">> >>

GSTIN_LEN == 15

\* ^[0-9]{2}[A-Z]{5}[0-9]{4}[A-Z]{1}[1-9A-Z]{1}Z[0-9A-Z]{1}$ : the class of
\* each of the fifteen positions.
pattern ==
    << Digits, Digits,
       Letters, Letters, Letters, Letters, Letters,
       Digits, Digits, Digits, Digits,
       Letters,
       (Digits \ {"0"}) \cup Letters,
       {"Z"},
       Digits \cup Letters >>

\* re.match(pattern, u): the fifteen classes from the start of u, then "$",
\* which matches at the end of u and also just before a newline that ends u.
re_match(u) ==
    /\ \/ Len(u) = Len(pattern)
       \/ Len(u) = Len(pattern) + 1 /\ u[Len(u)] = Newline
    /\ \A j \in DOMAIN pattern : u[j] \in pattern[j]

is_valid_gstin_format(g) ==
    IF Len(g) # GSTIN_LEN THEN FALSE ELSE re_match(upper(g))

Subst(chars, i, c) == [chars EXCEPT ![i] = c]

\* try_fix_gstin returning the first substituted candidate without
\* running the validator on it.
try_fix_no_recheck(g) ==
    IF is_valid_gstin_format(g) THEN g
    ELSE LET chars == upper(g)
             hits == {i \in DOMAIN chars :
                         \E k \in DOMAIN AMBIGUOUS_MAPS : chars[i] = AMBIGUOUS_MAPS[k][1]}
         IN  IF hits = {} THEN g
             ELSE LET i == CHOOSE x \in hits : \A y \in hits : x <= y
                      k == CHOOSE x \in DOMAIN AMBIGUOUS_MAPS :
                               chars[i] = AMBIGUOUS_MAPS[x][1]
                  IN  Subst(chars, i, AMBIGUOUS_MAPS[k][2])

\* try_fix_gstin scanning the positions from the last to the first.
try_fix_reversed(g) ==
    IF is_valid_gstin_format(g) THEN g
    ELSE LET chars == upper(g)
             ok(i, k) == /\ chars[i] = AMBIGUOUS_MAPS[k][1]
                         /\ is_valid_gstin_format(Subst(chars, i, AMBIGUOUS_MAPS[k][2]))
             hits == {i \in DOMAIN chars : \E k \in DOMAIN AMBIGUOUS_MAPS : ok(i, k)}
         IN  IF hits = {} THEN g
             ELSE LET i == CHOOSE x \in hits : \A y \in hits : x >= y
                      k == CHOOSE x \in DOMAIN AMBIGUOUS_MAPS : ok(i, x)
                  IN  Subst(chars, i, AMBIGUOUS_MAPS[k][2])

\* try_fix_gstin without the early return on a valid input.
try_fix_no_early_return(g) ==
    LET chars == upper(g)
        ok(i, k) == /\ chars[i] = AMBIGUOUS_MAPS[k][1]
                    /\ is_valid_gstin_format(Subst(chars, i, AMBIGUOUS_MAPS[k][2]))
        hits == {i \in DOMAIN chars : \E k \in DOMAIN AMBIGUOUS_MAPS : ok(i, k)}
    IN  IF hits = {} THEN g
        ELSE LET i == CHOOSE x \in hits : \A y \in hits : x <= y
                 k == CHOOSE x \in DOMAIN AMBIGUOUS_MAPS : ok(i, x)
             IN  Subst(chars, i, AMBIGUOUS_MAPS[k][2])

\* try_fix_gstin returning the uppercased view of a valid input.
try_fix_upper_valid(g) ==
    IF is_valid_gstin_format(g) THEN upper(g)
    ELSE LET chars == upper(g)
             ok(i, k) == /\ chars[i] = AMBIGUOUS_MAPS[k][1]
                         /\ is_valid_gstin_format(Subst(chars, i, AMBIGUOUS_MAPS[k][2]))
             hits == {i \in DOMAIN chars : \E k \in DOMAIN AMBIGUOUS_MAPS : ok(i, k)}
         IN  IF hits = {} THEN g
             ELSE LET i == CHOOSE x \in hits : \A y \in hits : x <= y
                      k == CHOOSE x \in DOMAIN AMBIGUOUS_MAPS : ok(i, x)
                  IN  Subst(chars, i, AMBIGUOUS_MAPS[k][2])

\* try_fix_gstin returning the uppercased working copy when nothing validates.
try_fix_return_chars(g) ==
    IF is_valid_gstin_format(g) THEN g
    ELSE LET chars == upper(g)
             ok(i, k) == /\ chars[i] = AMBIGUOUS_MAPS[k][1]
                         /\ is_valid_gstin_format(Subst(chars, i, AMBIGUOUS_MAPS[k][2]))
             hits == {i \in DOMAIN chars : \E k \in DOMAIN AMBIGUOUS_MAPS : ok(i, k)}
         IN  IF hits = {} THEN chars
             ELSE LET i == CHOOSE x \in hits : \A y \in hits : x <= y
                      k == CHOOSE x \in DOMAIN AMBIGUOUS_MAPS : ok(i, x)
                  IN  Subst(chars, i, AMBIGUOUS_MAPS[k][2])

\* try_fix_gstin with chars = list(gstin): the working copy not uppercased.
try_fix_no_upper(g) ==
    IF is_valid_gstin_format(g) THEN g
    ELSE LET chars == g
             ok(i, k) == /\ chars[i] = AMBIGUOUS_MAPS[k][1]
                         /\ is_valid_gstin_format(Subst(chars, i, AMBIGUOUS_MAPS[k][2]))
             hits == {i \in DOMAIN chars : \E k \in DOMAIN AMBIGUOUS_MAPS : ok(i, k)}
         IN  IF hits = {} THEN g
             ELSE LET i == CHOOSE x \in hits : \A y \in hits : x <= y
                      k == CHOOSE x \in DOMAIN AMBIGUOUS_MAPS : ok(i, x)
                  IN  Subst(chars, i, AMBIGUOUS_MAPS[k][2])

\* No candidate of a position validated (a valid candidate is never empty).
NoFix == <<>>

\* chars is the uppercased working copy, every failed trial reverted.
\* pairs[k] is the inner loop at position i from table entry k on: the
\* first candidate that validates, if any.  scan[i] is the outer loop from
\* position i on: what try_fix_gstin returns.
try_fix_gstin(g) ==
    IF is_valid_gstin_format(g) THEN g
    ELSE LET original == g
             chars == upper(g)
             n == Len(chars)
             m == Len(AMBIGUOUS_MAPS)
             scan[i \in 1..(n + 1)] ==
                 IF i > n THEN original
                 ELSE LET ch == chars[i]
                          pairs[k \in 1..(m + 1)] ==
                              IF k > m THEN NoFix
                              ELSE LET wrong == AMBIGUOUS_MAPS[k][1]
                                       alt == AMBIGUOUS_MAPS[k][2]
                                       candidate == Subst(chars, i, alt)
                                   IN  IF ch = wrong /\ is_valid_gstin_format(candidate)
                                       THEN candidate
                                       ELSE pairs[k + 1]
                          found == pairs[1]
                      IN  IF found # NoFix THEN found ELSE scan[i + 1]
         IN  scan[1]

---------------------------------------------------------------------------
(* Inputs *)

MaxEdits == 2

\* The supplier GSTIN the extraction schema quotes as its example.
SampleGSTIN ==
    <<"0", "7", "A", "A", "F", "C", "I", "8", "1", "3", "4", "F", "1", "Z", "M">>

\* Fourteen characters: one letter short, check character 8.
Short14 ==
    <<"0", "7", "A", "F", "C", "I", "8", "1", "3", "4", "F", "1", "Z", "8">>

SampleInputs ==
    { <<>>, SampleGSTIN, Short14, Short14 \o <<Newline>>, SampleGSTIN \o <<"M">> }

\* What a misread puts in place of a character.
MisreadChars == {"0", "1", "l", SharpS}

---------------------------------------------------------------------------
(* The corrector called on an input, then on its own output *)

Init ==
    /\ gstin \in SampleInputs
    /\ edits = 0
    /\ result = <<>>
    /\ result2 = <<>>
    /\ ncalls = 0
    /\ data = <<>>
    /\ processed = <<>>
    /\ calls = <<>>
    /\ done = FALSE

\* Upstream OCR misreads one character of the candidate string.
Misread(i, c) ==
    /\ ncalls = 0
    /\ edits < MaxEdits
    /\ gstin[i] # c
    /\ gstin' = [gstin EXCEPT ![i] = c]
    /\ edits' = edits + 1
    /\ UNCHANGED <<result, result2, ncalls, data, processed, calls, done>>

TryFix ==
    /\ ncalls = 0
    /\ result' = try_fix_gstin(gstin)
    /\ ncalls' = 1
    /\ UNCHANGED <<gstin, edits, result2, data, processed, calls, done>>

TryFixAgain ==
    /\ ncalls = 1
    /\ result2' = try_fix_gstin(result)
    /\ ncalls' = 2
    /\ UNCHANGED <<gstin, edits, result, data, processed, calls, done>>

Next ==
    \/ \E i \in 1..(GSTIN_LEN + 1), c \in MisreadChars :
           i <= Len(gstin) /\ Misread(i, c)
    \/ TryFix
    \/ TryFixAgain

Spec == Init /\ [][Next]_vars

---------------------------------------------------------------------------
(* Post-processing of an extracted record *)

GSTKeys == <<"StockiestGST", "InstituteGST">>

Keys == {"StockiestGST", "InstituteGST", "InvoiceDate"}

\* "if processed.get(key): processed[key] = try_fix_gstin(processed[key])"
\* on the state st of the call: the copy and the corrector's invocations.
fix_field(st, key) ==
    IF key \in DOMAIN st.processed /\ st.processed[key] # <<>>
    THEN [processed |-> [st.processed EXCEPT ![key] = try_fix_gstin(st.processed[key])],
          calls |-> Append(st.calls, st.processed[key])]
    ELSE st

\* post_process_invoice_data without the "if processed.get(key)" guards:
\* processed[key] = try_fix_gstin(processed.get(key, "")).
post_process_no_guard(d) ==
    LET get(k) == IF k \in DOMAIN d THEN d[k] ELSE <<>>
    IN  [processed |->
             [k \in DOMAIN d \cup {GSTKeys[1], GSTKeys[2]} |->
                 IF k \in {GSTKeys[1], GSTKeys[2]}
                 THEN try_fix_gstin(get(k))
                 ELSE d[k]],
         calls |-> <<get(GSTKeys[1]), get(GSTKeys[2])>>]

post_process_invoice_data(d) ==
    fix_field(fix_field([processed |-> d, calls |-> <<>>], GSTKeys[1]), GSTKeys[2])

\* One misread of the sample GSTIN that the table repairs, in capitals and
\* in lower case; one that it does not repair.
Fixable == Subst(SampleGSTIN, 7, "1")

FixableLower ==
    [j \in DOMAIN Fixable |->
        IF Fixable[j] \in Letters
        THEN LOWERCASE[CHOOSE n \in DOMAIN UPPERCASE : UPPERCASE[n] = Fixable[j]]
        ELSE Fixable[j]]

Unfixable == Subst(SampleGSTIN, 9, "l")

FieldValues == {<<>>, SampleGSTIN, Fixable, FixableLower, Unfixable}

Records == UNION {[K -> FieldValues] : K \in SUBSET Keys}

InitPP ==
    /\ data \in Records
    /\ processed = <<>>
    /\ calls = <<>>
    /\ done = FALSE
    /\ gstin = <<>>
    /\ edits = 0
    /\ result = <<>>
    /\ result2 = <<>>
    /\ ncalls = 0

PostProcess ==
    /\ ~done
    /\ LET r == post_process_invoice_data(data)
       IN  /\ processed' = r.processed
           /\ calls' = r.calls
    /\ done' = TRUE
    /\ UNCHANGED <<data, gstin, edits, result, result2, ncalls>>

NextPP == PostProcess

SpecPP == InitPP /\ [][NextPP]_vars

---------------------------------------------------------------------------
(* Vocabulary of the properties *)

\* try_fix_gstin(gstin) has just returned result.
Called == ncalls = 1

Repaired == Called /\ result # gstin

\* The fifteen-position grammar itself, on a string taken as it is.
MatchesGrammar(u) ==
    Len(u) = GSTIN_LEN /\ \A j \in 1..GSTIN_LEN : u[j] \in pattern[j]

\* The single substitutions <<position, table entry>> of the uppercased s
\* that yield a valid string.
Fixes(s) ==
    LET u == upper(s)
    IN  {f \in (DOMAIN u) \X (DOMAIN AMBIGUOUS_MAPS) :
            /\ u[f[1]] = AMBIGUOUS_MAPS[f[2]][1]
            /\ is_valid_gstin_format(Subst(u, f[1], AMBIGUOUS_MAPS[f[2]][2]))}

Before(f, h) == f[1] < h[1] \/ (f[1] = h[1] /\ f[2] <= h[2])

FirstFix(s) == CHOOSE f \in Fixes(s) : \A h \in Fixes(s) : Before(f, h)

Applied(s, f) == Subst(upper(s), f[1], AMBIGUOUS_MAPS[f[2]][2])

\* The positions at which two strings of one length differ.
Diff(a, b) == {j \in DOMAIN a : a[j] # b[j]}

OneEdit(a, b) == Len(a) = Len(b) /\ Cardinality(Diff(a, b)) = 1

\* The positions the grammar wants a digit in: 1-2 and 8-11.
DigitPositions == {j \in DOMAIN pattern : pattern[j] = Digits}

\* The pairs <<f, h>> of table substitutions at two positions of the
\* uppercased s that validate together while neither does alone.
TwoErrors(s) ==
    IF is_valid_gstin_format(s) THEN {}
    ELSE LET u == upper(s)
             w == {f \in (DOMAIN u) \X (DOMAIN AMBIGUOUS_MAPS) :
                      u[f[1]] = AMBIGUOUS_MAPS[f[2]][1]}
             sub(v, f) == Subst(v, f[1], AMBIGUOUS_MAPS[f[2]][2])
         IN  {p \in w \X w :
                 /\ p[1][1] < p[2][1]
                 /\ is_valid_gstin_format(sub(sub(u, p[1]), p[2]))
                 /\ ~is_valid_gstin_format(sub(u, p[1]))
                 /\ ~is_valid_gstin_format(sub(u, p[2]))}

---------------------------------------------------------------------------
(* Properties *)

\* C1: whenever try_fix_gstin returns a string other than its argument, the
\* returned string satisfies is_valid_gstin_format.
Thm_C1 == Repaired => is_valid_gstin_format(result)

Wit_C1 ==
    /\ ncalls = 1
    /\ Len(gstin) = GSTIN_LEN
    /\ result # gstin
    /\ is_valid_gstin_format(result)

\* C2 as stated: whenever try_fix_gstin(s) # s, the result has the length of
\* s and differs from s in exactly one position, lowercase inputs included.
Orig_C2 == Repaired => OneEdit(result, gstin)

\* C2, amended: whenever try_fix_gstin(s) # s, the result has the length of
\* the uppercased s and differs from the uppercased s in exactly one
\* position (from s itself every lowercase letter differs as well).
Thm_C2 == Repaired => OneEdit(result, upper(gstin))

Wit_C2 == Repaired /\ gstin # upper(gstin) /\ Len(upper(gstin)) = Len(gstin)

\* C3 as stated: is_valid_gstin_format(s) is true if and only if the
\* uppercased s has exactly 15 characters and matches the positional grammar.
Claim_C3 == is_valid_gstin_format(gstin) <=> MatchesGrammar(upper(gstin))

\* C4: when several single substitutions would each validate an invalid
\* input, try_fix_gstin returns the one at the lowest position, by the
\* earliest table entry applicable there.
Thm_C4 ==
    (Called /\ ~is_valid_gstin_format(gstin) /\ Cardinality(Fixes(gstin)) >= 2)
        => result = Applied(gstin, FirstFix(gstin))

Wit_C4 ==
    /\ ncalls = 1
    /\ ~is_valid_gstin_format(gstin)
    /\ Cardinality(Fixes(gstin)) >= 2
    /\ result = Applied(gstin, FirstFix(gstin))

\* C5: try_fix_gstin applied to its own output returns that output, when
\* the first call repaired its input and when it returned it unchanged.
Thm_C5 == ncalls = 2 => result2 = result

Wit_C5 == ncalls = 2 /\ result # gstin /\ result2 = result

\* C6: a valid input is returned character for character, casing kept.
Thm_C6 == (Called /\ is_valid_gstin_format(gstin)) => result = gstin

Wit_C6 ==
    /\ ncalls = 1
    /\ is_valid_gstin_format(gstin)
    /\ MatchesGrammar(upper(gstin))
    /\ gstin # upper(gstin)
    /\ result = gstin

\* C7: an invalid input that no single table substitution on its uppercased
\* form validates is returned exactly as given, not uppercased.
Thm_C7 ==
    (Called /\ ~is_valid_gstin_format(gstin) /\ Fixes(gstin) = {})
        => result = gstin

Wit_C7 ==
    /\ ncalls = 1
    /\ Len(gstin) = GSTIN_LEN
    /\ ~is_valid_gstin_format(gstin)
    /\ Fixes(gstin) = {}
    /\ gstin # upper(gstin)
    /\ result = gstin

\* C8: post_process_invoice_data returns a mapping with the keys of its
\* input; a tax-ID key present with a non-empty value holds try_fix_gstin
\* of it; an empty or absent one passes through with no call of the
\* corrector and no key added; every other key keeps its value.
Thm_C8 ==
    done =>
        /\ DOMAIN processed = DOMAIN data
        /\ \A k \in DOMAIN data :
               processed[k] =
                   IF k \in {GSTKeys[1], GSTKeys[2]} /\ data[k] # <<>>
                   THEN try_fix_gstin(data[k])
                   ELSE data[k]
        /\ calls = SelectSeq([n \in DOMAIN GSTKeys |->
                                 IF GSTKeys[n] \in DOMAIN data
                                 THEN data[GSTKeys[n]] ELSE <<>>],
                             LAMBDA v : v # <<>>)

Wit_C8 ==
    /\ done
    /\ DOMAIN data = {"StockiestGST", "InvoiceDate"}
    /\ data["StockiestGST"] = FixableLower
    /\ processed["StockiestGST"] = SampleGSTIN
    /\ processed["InvoiceDate"] = data["InvoiceDate"]
    /\ calls = <<FixableLower>>

\* C9 as stated: of two table-fixable errors that are both needed, the
\* result has only the first corrected, and is still invalid.
Orig_C9 ==
    (Called /\ TwoErrors(gstin) # {})
        => /\ \E p \in TwoErrors(gstin) : result = Applied(gstin, p[1])
           /\ ~is_valid_gstin_format(result)

\* C9, amended: of two table-fixable errors that are both needed, neither
\* is corrected: the input is returned unchanged, and is still invalid.
Thm_C9 ==
    (Called /\ TwoErrors(gstin) # {})
        => result = gstin /\ ~is_valid_gstin_format(result)

Wit_C9 == ncalls = 1 /\ TwoErrors(gstin) # {} /\ result = gstin

\* Every repaired result is the uppercased input with one of 8->B, 0->O,
\* 1->I applied; the entry l->1 is never the one applied.
OnlyFirstThree ==
    Repaired =>
        \E i \in DOMAIN upper(gstin), k \in 1..3 :
            /\ upper(gstin)[i] = AMBIGUOUS_MAPS[k][1]
            /\ result = Subst(upper(gstin), i, AMBIGUOUS_MAPS[k][2])

=============================================================================
